---------------------------- MODULE Spec2Model ----------------------------
(***************************************************************************)
(* State machine of SineWavePlotter (qt_gui.py): the stored domain bound  *)
(* self.x, the slider, the text field, the result label and the plot, and *)
(* the three signal handlers that keep them in step.                      *)
(*                                                                         *)
(* Numbers.  self.x is a Python float.  The model keeps a float as an     *)
(* exact decimal: [k, sgn, whole, milli, digs] with                       *)
(*   k = "num"  : the value sgn * (whole + milli/1000), whole < 10^9      *)
(*   k = "huge" : a finite value of ten or more integer digits, kept as   *)
(*                its digit string digs (plus milli)                      *)
(*   k = "inf"  : an infinity,   k = "nan" : not-a-number.                *)
(* On this grid int(x * 10) of the float equals the exact floor (checked  *)
(* against CPython for every value below 30.000).                         *)
(*                                                                         *)
(* Text.  A string is a sequence of one-character strings, so float(text) *)
(* and f"{x:.2f}" are modelled as the conversions they are.               *)
(***************************************************************************)
EXTENDS Integers, Sequences, FiniteSets, TLC

---------------------------------------------------------------------------
(* Characters and digit strings *)

DigitChars == <<"0", "1", "2", "3", "4", "5", "6", "7", "8", "9">>

IsDigit(c) == \E i \in 1..10 : DigitChars[i] = c

DigitVal(c) == (CHOOSE i \in 1..10 : DigitChars[i] = c) - 1

AllDigits(s) == \A i \in 1..Len(s) : IsDigit(s[i])

RECURSIVE DigitsToNat(_)
DigitsToNat(s) ==
    IF s = <<>> THEN 0
    ELSE DigitsToNat(SubSeq(s, 1, Len(s) - 1)) * 10 + DigitVal(s[Len(s)])

RECURSIVE NatToDigits(_)
NatToDigits(n) ==
    IF n < 10 THEN <<DigitChars[n + 1]>>
    ELSE Append(NatToDigits(n \div 10), DigitChars[(n % 10) + 1])

RECURSIVE StripZeros(_)
StripZeros(s) ==
    IF Len(s) > 1 /\ Head(s) = "0" THEN StripZeros(Tail(s)) ELSE s

RECURSIVE IncDigits(_)
IncDigits(s) ==
    IF s = <<>> THEN <<"1">>
    ELSE IF s[Len(s)] = "9"
         THEN Append(IncDigits(SubSeq(s, 1, Len(s) - 1)), "0")
         ELSE Append(SubSeq(s, 1, Len(s) - 1), DigitChars[DigitVal(s[Len(s)]) + 2])

---------------------------------------------------------------------------
(* Floats *)

Num(w, m) == [k |-> "num", sgn |-> 1, whole |-> w, milli |-> m, digs |-> <<>>]

Neg(v) == [v EXCEPT !.sgn = -1]

Inf == [k |-> "inf", sgn |-> 1, whole |-> 0, milli |-> 0, digs |-> <<>>]

NaN == [k |-> "nan", sgn |-> 1, whole |-> 0, milli |-> 0, digs |-> <<>>]

Huge(d, m) == [k |-> "huge", sgn |-> 1, whole |-> 0, milli |-> m, digs |-> d]

\* Positive as "val >= 0" would have it: zero passes.
PositiveOrZero(v) == v.k # "nan" /\ v.sgn = 1

\* val > 0 of line 120: false of nan, of zero and of every negative value.
Positive(v) ==
    /\ v.k # "nan"
    /\ v.sgn = 1
    /\ (v.k = "num" => (v.whole > 0 \/ v.milli > 0))

\* value // SLIDER_SCALE_FACTOR: the integer division in place of the true one.
TickToFloatFloorDiv(t, scale) == Num(t \div scale, 0)

\* value / SLIDER_SCALE_FACTOR of line 113, for an integer tick.
TickToFloat(t, scale) == Num(t \div scale, (t % scale) * (1000 \div scale))

\* True when int(v * scale) does not fit the C int (INT_MAX = 2147483647) that
\* QSlider.setValue takes, for a "num" v; written so that no product overflows.
ExceedsCInt(v, scale) ==
    \/ v.whole > 2147483647 \div scale
    \/ /\ v.whole = 2147483647 \div scale
       /\ (v.milli * scale) \div 1000 > 2147483647 % scale

\* int(v * scale) of line 133 for a value inside the C int range: int()
\* truncates toward zero.
IntOfScaled(v, scale) == v.sgn * (v.whole * scale + (v.milli * scale) \div 1000)

\* |a - b| <= tol thousandths, as the float comparison gives it: a difference
\* that involves an infinity or a nan is nan, and no comparison with nan holds.
Within(a, b, tol) ==
    /\ a.k \in {"num", "huge"}
    /\ b.k = a.k
    /\ a.sgn = b.sgn
    /\ IF a.k = "huge"
       THEN a.digs = b.digs /\ a.milli - b.milli <= tol /\ b.milli - a.milli <= tol
       ELSE /\ a.whole - b.whole \in {-1, 0, 1}
            /\ (a.whole - b.whole) * 1000 + a.milli - b.milli <= tol
            /\ (b.whole - a.whole) * 1000 + b.milli - a.milli <= tol

---------------------------------------------------------------------------
(* float(text) and f"{x:.2f}" *)

ValueError == [k |-> "ValueError", sgn |-> 1, whole |-> 0, milli |-> 0, digs |-> <<>>]

\* str.strip() as float() applies it (the model's only blank is the space).
RECURSIVE Strip(_)
Strip(s) ==
    IF s = <<>> THEN s
    ELSE IF Head(s) = " " THEN Strip(Tail(s))
    ELSE IF s[Len(s)] = " " THEN Strip(SubSeq(s, 1, Len(s) - 1))
    ELSE s

\* The first three fraction digits as thousandths (later digits are below the
\* model's resolution).
FracMilli(fp) ==
    LET d(i) == IF i <= Len(fp) THEN DigitVal(fp[i]) ELSE 0
    IN  d(1) * 100 + d(2) * 10 + d(3)

\* An unsigned decimal literal: digits, at most one point, at least one digit.
ParseDecimal(r) ==
    LET dots == {i \in 1..Len(r) : r[i] = "."}
        dot  == IF dots = {} THEN Len(r) + 1 ELSE CHOOSE i \in dots : TRUE
        ip   == SubSeq(r, 1, dot - 1)
        fp   == SubSeq(r, dot + 1, Len(r))
        ds   == StripZeros(ip)
    IN  IF \/ Cardinality(dots) > 1
           \/ ~AllDigits(ip)
           \/ ~AllDigits(fp)
           \/ Len(ip) + Len(fp) = 0
        THEN ValueError
        ELSE IF Len(ds) > 9
        THEN Huge(ds, FracMilli(fp))
        ELSE Num(DigitsToNat(ds), FracMilli(fp))

\* float(text) of line 119: the parsed value, or ValueError.
ParseFloat(text) ==
    LET s      == Strip(text)
        signed == s # <<>> /\ Head(s) \in {"+", "-"}
        r      == IF signed THEN Tail(s) ELSE s
        u      == IF r = <<"i", "n", "f">> THEN Inf
                  ELSE IF r = <<"n", "a", "n">> THEN NaN
                  ELSE ParseDecimal(r)
    IN  IF signed /\ Head(s) = "-" /\ u.k # "ValueError" THEN Neg(u) ELSE u

\* Thousandths rounded to hundredths, ties to even.
Cents(m) ==
    LET q == m \div 10
        r == m % 10
    IN  IF r > 5 \/ (r = 5 /\ q % 2 = 1) THEN q + 1 ELSE q

TwoDigits(c) == <<DigitChars[(c \div 10) + 1], DigitChars[(c % 10) + 1]>>

\* f"{v:.2f}" of lines 63, 82, 134, 135 and 142.
Fmt2(v) ==
    LET c    == Cents(v.milli)
        sign == IF v.sgn = -1 THEN <<"-">> ELSE <<>>
    IN  IF v.k = "inf" THEN sign \o <<"i", "n", "f">>
        ELSE IF v.k = "nan" THEN <<"n", "a", "n">>
        ELSE IF v.k = "huge"
        THEN sign \o (IF c = 100 THEN IncDigits(v.digs) ELSE v.digs)
                  \o <<".">> \o TwoDigits(c % 100)
        ELSE sign \o NatToDigits(v.whole + c \div 100) \o <<".">> \o TwoDigits(c % 100)

---------------------------------------------------------------------------
(* Constants of __init__ *)

\* 4 * np.pi = 12.566370614359172, at the model's resolution.
X_MAX_DEFAULT == Num(12, 566)

SLIDER_SCALE_FACTOR == 10

\* int(X_MAX_DEFAULT * SLIDER_SCALE_FACTOR * 2) = 251
SLIDER_MAX == IntOfScaled(X_MAX_DEFAULT, SLIDER_SCALE_FACTOR * 2)

\* The lower end of slider.setRange(1, SLIDER_MAX).
SLIDER_MIN == 1

\* The sample count of np.linspace(0, x, 1000).
SAMPLES == 1000

---------------------------------------------------------------------------
(* Inputs *)

\* The deepest stack of frames the model follows.
MaxStack == 6

\* Ticks the user drags the slider to.
SliderInputs == {t \in SLIDER_MIN..SLIDER_MAX : t % 10 = 1} \cup {62, 63, 125}

\* Texts the user types into the field before confirming.
TextInputs ==
    { <<"a", "b", "c">>,
      <<"-", "5">>,
      <<"0">>,
      <<"n", "a", "n">>,
      <<"i", "n", "f">>,
      <<"3", "0", "0", "0", "0", "0", "0", "0", "0", "0">>,
      <<"6", ".", "2", "8">>,
      <<"6", ".", "2", "9", "6">>,
      <<"0", ".", "0", "0", "4">>,
      <<"3", "0">> }

---------------------------------------------------------------------------
(* State *)

VARIABLES
    x,             \* self.x
    slider,        \* self.slider.value()
    input_field,   \* self.input_field.text()
    result_label,  \* self.result_label.text()
    plot,          \* what self.axes shows
    stack,         \* the Python frames of the running handlers, innermost last
    last           \* the user event being served, or the last one served

vars == <<x, slider, input_field, result_label, plot, stack, last>>

\* f"sin({v:.2f}) = {np.sin(v):.4f}": the shown argument and the value whose
\* sine is shown (np.sin is left uninterpreted).
LabelOf(v) == [arg |-> Fmt2(v), sin_of |-> v]

\* update_plot: the title and the curve over np.linspace(0, v, 1000).
PlotOf(v) == [title |-> Fmt2(v), x_max |-> v, samples |-> SAMPLES]

\* The stored value and the four surfaces.
View ==
    [x |-> x, slider |-> slider, input_field |-> input_field,
     result_label |-> result_label, plot |-> plot]

Frame(fn, pc, value, val) == [fn |-> fn, pc |-> pc, value |-> value, val |-> val]

Handlers == {"_on_slider_changed", "_on_input_field_changed", "_on_reset_clicked"}

Top == stack[Len(stack)]

Running(fn, pc) == stack # <<>> /\ Top.fn = fn /\ Top.pc = pc

Goto(pc) == [stack EXCEPT ![Len(stack)].pc = pc]

Popped == SubSeq(stack, 1, Len(stack) - 1)

\* The record of a user event as it starts.
Event(op, tick, text) ==
    [op |-> op, tick |-> tick, text |-> text, pre |-> View, prev |-> last.op,
     outcome |-> "running", emitted |-> 0]

\* last, once the frames left are rest: the event is over when none is left.
Finish(rest, outcome) ==
    IF rest = <<>> THEN [last EXCEPT !.outcome = outcome] ELSE last

\* A range that bounds only from below: the upper end of setRange forgotten.
ClampLowOnly(t) == IF t < SLIDER_MIN THEN SLIDER_MIN ELSE t

\* QSlider.setRange bounds what setValue stores.
Clamp(t) == IF t < SLIDER_MIN THEN SLIDER_MIN ELSE IF t > SLIDER_MAX THEN SLIDER_MAX ELSE t

\* QSlider emits valueChanged only when setValue changes the position.
ValueChanged(old, new) == old # new

\* int(self.x * SCALE) or slider.setValue(...) of line 133 raises OverflowError:
\* int() of an infinity, or a Python int beyond the C int of setValue.
Overflows(v) ==
    \/ v.k \in {"inf", "nan", "huge"}
    \/ ExceedsCInt(v, SLIDER_SCALE_FACTOR)

\* __init__: x = 4 pi, the field and the label from it, the slider set to
\* int(x * SCALE) before any signal is connected, the first plot drawn.
InitView ==
    [x |-> X_MAX_DEFAULT,
     slider |-> Clamp(IntOfScaled(X_MAX_DEFAULT, SLIDER_SCALE_FACTOR)),
     input_field |-> Fmt2(X_MAX_DEFAULT),
     result_label |-> LabelOf(X_MAX_DEFAULT),
     plot |-> PlotOf(X_MAX_DEFAULT)]

Init ==
    /\ x = InitView.x
    /\ slider = InitView.slider
    /\ input_field = InitView.input_field
    /\ result_label = InitView.result_label
    /\ plot = InitView.plot
    /\ stack = <<>>
    /\ last = [op |-> "__init__", tick |-> 0, text |-> <<>>, pre |-> InitView,
               prev |-> "__init__", outcome |-> "returned", emitted |-> 0]

---------------------------------------------------------------------------
(* User events: Qt delivers one only when no handler is running *)

\* The user drags the slider to tick t: valueChanged(t) calls _on_slider_changed.
SliderMoved(t) ==
    /\ stack = <<>>
    /\ ValueChanged(slider, t)
    /\ slider' = t
    /\ stack' = <<Frame("_on_slider_changed", 113, t, NaN)>>
    /\ last' = Event("SetFromSlider", t, <<>>)
    /\ UNCHANGED <<x, input_field, result_label, plot>>

\* The user leaves the field holding raw: editingFinished calls
\* _on_input_field_changed.
EditingFinished(raw) ==
    /\ stack = <<>>
    /\ input_field' = raw
    /\ stack' = <<Frame("_on_input_field_changed", 119, 0, NaN)>>
    /\ last' = Event("SetFromText", 0, raw)
    /\ UNCHANGED <<x, slider, result_label, plot>>

\* The user clicks Reset: clicked calls _on_reset_clicked.
ResetClicked ==
    /\ stack = <<>>
    /\ stack' = <<Frame("_on_reset_clicked", 128, 0, NaN)>>
    /\ last' = Event("Reset", 0, <<>>)
    /\ UNCHANGED <<x, slider, input_field, result_label, plot>>

---------------------------------------------------------------------------
(* _on_slider_changed, lines 112-115 *)

\* The slider handler with its assignment to self.x left out.
OnSlider_113_Skip ==
    /\ Running("_on_slider_changed", 113)
    /\ stack' = Goto(114)
    /\ UNCHANGED <<x, slider, input_field, result_label, plot, last>>

OnSlider_113 ==
    /\ Running("_on_slider_changed", 113)
    /\ x' = TickToFloat(Top.value, SLIDER_SCALE_FACTOR)
    /\ stack' = Goto(114)
    /\ UNCHANGED <<slider, input_field, result_label, plot, last>>

OnSlider_114 ==
    /\ Running("_on_slider_changed", 114)
    /\ stack' = Append(Goto(115), Frame("_update_ui_values", 133, 0, NaN))
    /\ UNCHANGED <<x, slider, input_field, result_label, plot, last>>

OnSlider_115 ==
    /\ Running("_on_slider_changed", 115)
    /\ plot' = PlotOf(x)
    /\ stack' = Popped
    /\ last' = Finish(Popped, "returned")
    /\ UNCHANGED <<x, slider, input_field, result_label>>

---------------------------------------------------------------------------
(* _on_input_field_changed, lines 117-125 *)

\* val = float(self.input_field.text()); a ValueError enters the except clause.
OnInput_119 ==
    /\ Running("_on_input_field_changed", 119)
    /\ LET v == ParseFloat(input_field)
       IN  stack' = IF v.k = "ValueError"
                    THEN Goto(125)
                    ELSE [Goto(120) EXCEPT ![Len(stack)].val = v]
    /\ UNCHANGED <<x, slider, input_field, result_label, plot, last>>

\* Line 120 without its test: every parsed value is stored.
OnInput_120_Unguarded ==
    /\ Running("_on_input_field_changed", 120)
    /\ stack' = Goto(121)
    /\ UNCHANGED <<x, slider, input_field, result_label, plot, last>>

\* if val > 0: with no else branch, the handler returns.
OnInput_120 ==
    /\ Running("_on_input_field_changed", 120)
    /\ IF Positive(Top.val)
       THEN stack' = Goto(121) /\ last' = last
       ELSE stack' = Popped /\ last' = Finish(Popped, "returned")
    /\ UNCHANGED <<x, slider, input_field, result_label, plot>>

OnInput_121 ==
    /\ Running("_on_input_field_changed", 121)
    /\ x' = Top.val
    /\ stack' = Goto(122)
    /\ UNCHANGED <<slider, input_field, result_label, plot, last>>

OnInput_122 ==
    /\ Running("_on_input_field_changed", 122)
    /\ stack' = Append(Goto(123), Frame("_update_ui_values", 133, 0, NaN))
    /\ UNCHANGED <<x, slider, input_field, result_label, plot, last>>

OnInput_123 ==
    /\ Running("_on_input_field_changed", 123)
    /\ plot' = PlotOf(x)
    /\ stack' = Popped
    /\ last' = Finish(Popped, "returned")
    /\ UNCHANGED <<x, slider, input_field, result_label>>

\* except ValueError: self._update_ui_values(); pc 126 is the return after it.
OnInput_125 ==
    /\ Running("_on_input_field_changed", 125)
    /\ stack' = Append(Goto(126), Frame("_update_ui_values", 133, 0, NaN))
    /\ UNCHANGED <<x, slider, input_field, result_label, plot, last>>

OnInput_126 ==
    /\ Running("_on_input_field_changed", 126)
    /\ stack' = Popped
    /\ last' = Finish(Popped, "returned")
    /\ UNCHANGED <<x, slider, input_field, result_label, plot>>

---------------------------------------------------------------------------
(* _on_reset_clicked, lines 127-130 *)

OnReset_128 ==
    /\ Running("_on_reset_clicked", 128)
    /\ x' = X_MAX_DEFAULT
    /\ stack' = Goto(129)
    /\ UNCHANGED <<slider, input_field, result_label, plot, last>>

OnReset_129 ==
    /\ Running("_on_reset_clicked", 129)
    /\ stack' = Append(Goto(130), Frame("_update_ui_values", 133, 0, NaN))
    /\ UNCHANGED <<x, slider, input_field, result_label, plot, last>>

OnReset_130 ==
    /\ Running("_on_reset_clicked", 130)
    /\ plot' = PlotOf(x)
    /\ stack' = Popped
    /\ last' = Finish(Popped, "returned")
    /\ UNCHANGED <<x, slider, input_field, result_label>>

---------------------------------------------------------------------------
(* _update_ui_values, lines 132-135 *)

\* The frames left when an exception leaves the innermost running handler: no
\* handler catches OverflowError, and Qt reports an exception that leaves a slot.
Unwound ==
    LET h == CHOOSE i \in 1..Len(stack) :
                 /\ stack[i].fn \in Handlers
                 /\ \A j \in (i + 1)..Len(stack) : stack[j].fn \notin Handlers
    IN  SubSeq(stack, 1, h - 1)

\* self.slider.setValue(int(self.x * SCALE)): raises, or stores the clamped
\* tick and, when that moves the slider, calls _on_slider_changed inside it.
UpdateUi_133 ==
    /\ Running("_update_ui_values", 133)
    /\ IF Overflows(x)
       THEN /\ stack' = Unwound
            /\ last' = Finish(Unwound, "OverflowError")
            /\ slider' = slider
       ELSE LET t == Clamp(IntOfScaled(x, SLIDER_SCALE_FACTOR))
            IN  IF ValueChanged(slider, t)
                THEN /\ Len(stack) < MaxStack
                     /\ slider' = t
                     /\ stack' = Append(Goto(134), Frame("_on_slider_changed", 113, t, NaN))
                     /\ last' = [last EXCEPT !.emitted = @ + 1]
                ELSE /\ stack' = Goto(134)
                     /\ UNCHANGED <<slider, last>>
    /\ UNCHANGED <<x, input_field, result_label, plot>>

UpdateUi_134 ==
    /\ Running("_update_ui_values", 134)
    /\ input_field' = Fmt2(x)
    /\ stack' = Goto(135)
    /\ UNCHANGED <<x, slider, result_label, plot, last>>

UpdateUi_135 ==
    /\ Running("_update_ui_values", 135)
    /\ result_label' = LabelOf(x)
    /\ stack' = Popped
    /\ UNCHANGED <<x, slider, input_field, plot, last>>

---------------------------------------------------------------------------
(* Specification *)

Next ==
    \/ \E t \in SliderInputs : SliderMoved(t)
    \/ \E raw \in TextInputs \cup {Fmt2(x)} : EditingFinished(raw)
    \/ ResetClicked
    \/ OnSlider_113 \/ OnSlider_114 \/ OnSlider_115
    \/ OnInput_119 \/ OnInput_120 \/ OnInput_121 \/ OnInput_122
    \/ OnInput_123 \/ OnInput_125 \/ OnInput_126
    \/ OnReset_128 \/ OnReset_129 \/ OnReset_130
    \/ UpdateUi_133 \/ UpdateUi_134 \/ UpdateUi_135

Spec == Init /\ [][Next]_vars

---------------------------------------------------------------------------
(* Properties *)

\* No handler is running and the last user event was op.
Served(op) == stack = <<>> /\ last.op = op

\* The text parses as a positive real number.
ParsesPositive(text) ==
    LET v == ParseFloat(text)
    IN  v.k \in {"num", "huge"} /\ v.sgn = 1 /\ (v.whole > 0 \/ v.milli > 0 \/ v.k = "huge")

\* The text is not a number, or is a number that is zero or negative.
RejectedText(text) ==
    LET v == ParseFloat(text)
    IN  \/ v.k = "ValueError"
        \/ v.k \in {"num", "huge", "inf"} /\ v.sgn = -1
        \/ v.k = "num" /\ v.whole = 0 /\ v.milli = 0

\* The handler frames on the stack.
HandlerFrames == {i \in 1..Len(stack) : stack[i].fn \in Handlers}

\* C1: after SetFromText of a text that parses as a positive real v, the
\* stored value is v exactly.
C1_TextSetsValueExactly ==
    (Served("SetFromText") /\ ParsesPositive(last.text)) => x = ParseFloat(last.text)

\* C2: after Reset the stored value is the default 4 pi exactly.
C2_ResetYieldsDefault ==
    Served("Reset") => x = X_MAX_DEFAULT

\* C3: a Reset that follows a Reset leaves the whole state (value, slider,
\* field, label, plot) as the first Reset left it.
C3_ResetIdempotent ==
    (Served("Reset") /\ last.prev = "Reset") => View = last.pre

\* C4: the stored value is positive in every state, inside handlers and nested
\* slider callbacks too.
C4_ValuePositive ==
    /\ x.k \in {"num", "huge", "inf"}
    /\ x.sgn = 1
    /\ (x.k = "num" => (x.whole > 0 \/ x.milli > 0))

\* A zero or negative number was typed and the handler has returned.
C4_Witness ==
    /\ Served("SetFromText")
    /\ last.outcome = "returned"
    /\ ParseFloat(last.text).k = "num"
    /\ RejectedText(last.text)
    /\ last.pre.x # X_MAX_DEFAULT

\* C5: after SetFromText of a rejected text (not a number, or not positive)
\* the value, the slider, the label and the plot are those from before the
\* call, and the slider emitted no event.
C5_RejectedLeavesValue ==
    (Served("SetFromText") /\ RejectedText(last.text)) =>
        /\ x = last.pre.x
        /\ slider = last.pre.slider
        /\ result_label = last.pre.result_label
        /\ plot = last.pre.plot
        /\ last.emitted = 0

\* A text that is no number was typed, the except clause ran and returned.
C5_Witness ==
    /\ Served("SetFromText")
    /\ last.outcome = "returned"
    /\ ParseFloat(last.text).k = "ValueError"
    /\ input_field # last.text
    /\ x = last.pre.x

\* C6: after SetFromText of a rejected text the field shows the last valid
\* value formatted to 2 decimals.
C6_RejectedTextReverted ==
    (Served("SetFromText") /\ RejectedText(last.text)) => input_field = Fmt2(last.pre.x)

\* C7: after SetFromSlider(t) the value is t / SCALE, the slider is at t, and
\* the field, the label and the plot are those of t / SCALE.
C7_SliderSetsValue ==
    Served("SetFromSlider") =>
        LET v == Num(last.tick \div 10, (last.tick % 10) * 100)
        IN  /\ x.k = "num" /\ x.sgn = 1
            /\ x.whole * 1000 + x.milli = last.tick * 100
            /\ slider = last.tick
            /\ input_field = Fmt2(v)
            /\ result_label = [arg |-> Fmt2(v), sin_of |-> v]
            /\ plot = [title |-> Fmt2(v), x_max |-> v, samples |-> 1000]
            /\ last.outcome = "returned"

\* SetFromSlider(1) has completed: the value is 0.1 and the plot runs to 0.1.
C7_Witness ==
    /\ Served("SetFromSlider")
    /\ last.tick = 1
    /\ x = Num(0, 100)
    /\ input_field = <<"0", ".", "1", "0">>
    /\ plot.x_max = Num(0, 100)

\* C8: at most one handler invocation is in progress at any time.
C8_NoReentrancy == Cardinality(HandlerFrames) <= 1

\* C9: every event's handler returns normally, and once it has the label and
\* the plot are those of the stored value.
C9_NoEscapingException ==
    stack = <<>> =>
        /\ last.outcome = "returned"
        /\ result_label = LabelOf(x)
        /\ plot = PlotOf(x)

\* C10: after SetFromText of the stored value formatted to 2 decimals, the
\* value is within 0.005 of what it was.
C10_RoundTrip ==
    (Served("SetFromText") /\ last.text = Fmt2(last.pre.x)) => Within(x, last.pre.x, 5)

\* C11: once an operation has returned, the label and the plot are those of
\* the stored value.
C11_SurfacesFollowValue ==
    (stack = <<>> /\ last.outcome = "returned") =>
        /\ result_label = LabelOf(x)
        /\ plot = PlotOf(x)

\* floor(v * SCALE) clamped into [1, SLIDER_MAX], for a positive finite v.
ClampedTickOf(v) ==
    IF v.k = "huge" \/ v.whole >= 1000 THEN SLIDER_MAX
    ELSE LET t == v.whole * 10 + v.milli \div 100
         IN  IF t < 1 THEN 1 ELSE IF t > SLIDER_MAX THEN SLIDER_MAX ELSE t

\* C12: the slider is always inside [1, SLIDER_MAX], and after SetFromText of
\* an accepted v > 0 it stands at floor(v * SCALE) clamped into that range.
C12_TextSetsSlider ==
    /\ slider \in 1..SLIDER_MAX
    /\ (Served("SetFromText") /\ ParsesPositive(last.text)) =>
           slider = ClampedTickOf(ParseFloat(last.text))

\* C14: whenever no handler is running and the stored value fits the slider's
\* integer range, the slider stands at floor(value * SCALE) clamped into
\* [1, SLIDER_MAX].
C14_SliderCoupling ==
    (stack = <<>> /\ x.k = "num" /\ ~ExceedsCInt(x, 10)) => slider = ClampedTickOf(x)

\* 30 was typed with the slider at its upper end: the value is 30 and the
\* slider shows the clamped tick.
C14_Witness ==
    /\ Served("SetFromText")
    /\ last.outcome = "returned"
    /\ x = Num(30, 0)
    /\ slider = SLIDER_MAX

\* The text passes the test val > 0 of the input handler.
AcceptedText(text) ==
    LET v == ParseFloat(text)
    IN  /\ v.k \in {"num", "huge", "inf"}
        /\ v.sgn = 1
        /\ (v.k = "num" => (v.whole > 0 \/ v.milli > 0))

\* C15: after a Reset or an accepted SetFromText, if the slider has moved the
\* value is (slider position) / SCALE and the field and the label show it; if
\* the slider has not moved the value is the one the operation assigned.
C15_WriteBackQuantises ==
    (\/ Served("Reset")
     \/ Served("SetFromText") /\ AcceptedText(last.text)) =>
        LET assigned == IF last.op = "Reset" THEN Num(12, 566) ELSE ParseFloat(last.text)
            q        == Num(slider \div 10, (slider % 10) * 100)
        IN  IF slider # last.pre.slider
            THEN /\ x = q
                 /\ input_field = Fmt2(q)
                 /\ result_label = [arg |-> Fmt2(q), sin_of |-> q]
                 /\ last.emitted = 1
            ELSE /\ x = assigned
                 /\ last.emitted = 0

\* 6.28 was typed with the slider elsewhere: the slider moved to 62 and the
\* value became 6.2.
C15_Witness ==
    /\ Served("SetFromText")
    /\ last.text = <<"6", ".", "2", "8">>
    /\ slider = 62
    /\ last.pre.slider # 62
    /\ x = Num(6, 200)
    /\ input_field = <<"6", ".", "2", "0">>

---------------------------------------------------------------------------
(* Termination of the callback cascade *)

\* One statement of a running handler: all that happens between two user
\* events.
HandlerStep ==
    \/ OnSlider_113 \/ OnSlider_114 \/ OnSlider_115
    \/ OnInput_119 \/ OnInput_120 \/ OnInput_121 \/ OnInput_122
    \/ OnInput_123 \/ OnInput_125 \/ OnInput_126
    \/ OnReset_128 \/ OnReset_129 \/ OnReset_130
    \/ UpdateUi_133 \/ UpdateUi_134 \/ UpdateUi_135

\* The ticks dragged to where whole behaviours are followed to their end: the
\* two ends of the range, the start position and the ticks next to 6.28.
FairSliderInputs == {SLIDER_MIN, 62, 63, 125, SLIDER_MAX}

NextFair ==
    \/ \E t \in FairSliderInputs : SliderMoved(t)
    \/ \E raw \in TextInputs \cup {Fmt2(x)} : EditingFinished(raw)
    \/ ResetClicked
    \/ HandlerStep

\* A handler, once called, runs on: Python executes it synchronously on the
\* one GUI thread, statement after statement.
SpecFair == Init /\ [][NextFair]_vars /\ WF_vars(HandlerStep)

\* The frames of _on_slider_changed on the stack.
SliderFrames == {i \in 1..Len(stack) : stack[i].fn = "_on_slider_changed"}

\* The write-back of the slider handler is about to run: _update_ui_values is
\* at line 133 and was called by _on_slider_changed.
SliderWriteBack ==
    /\ Len(stack) >= 2
    /\ stack[Len(stack)].fn = "_update_ui_values"
    /\ stack[Len(stack)].pc = 133
    /\ stack[Len(stack) - 1].fn = "_on_slider_changed"

\* The nesting the cascade of one user event stays within.
CascadeBounded ==
    /\ SliderWriteBack => (x.k = "num" /\ x.whole * 10 + x.milli \div 100 = slider)
    /\ Cardinality(SliderFrames) <= 1
    /\ Cardinality(HandlerFrames) <= 2
    /\ (Cardinality(HandlerFrames) = 2 =>
            /\ stack[1].fn \in {"_on_input_field_changed", "_on_reset_clicked"}
            /\ stack[3].fn = "_on_slider_changed")
    /\ Len(stack) <= 4
    /\ last.emitted <= 1

\* C16: the write-back inside the slider handler never moves the slider, the
\* slider handler is nested at most once, inside SetFromText or Reset and never
\* inside itself, and every operation that starts comes to its end.
C16_CascadeTerminates ==
    /\ []CascadeBounded
    /\ (stack # <<>>) ~> (stack = <<>>)

\* The slider handler, called from inside SetFromText, has done its write-back
\* and the slider stayed where it was.
C16_Witness ==
    /\ Len(stack) = 4
    /\ stack[1].fn = "_on_input_field_changed"
    /\ stack[3].fn = "_on_slider_changed"
    /\ stack[4].fn = "_update_ui_values"
    /\ stack[4].pc = 134
    /\ slider = stack[3].value
    /\ last.emitted = 1

---------------------------------------------------------------------------
(* Construction: __init__ and _setup_ui, statement by statement *)

\* self.x before line 24 assigns it.
Unset == [k |-> "unset", sgn |-> 1, whole |-> 0, milli |-> 0, digs |-> <<>>]

\* The widgets as Qt creates them: a QSlider at 0, empty texts, empty axes.
BlankView ==
    [x |-> Unset,
     slider |-> 0,
     input_field |-> <<>>,
     result_label |-> [arg |-> <<>>, sin_of |-> Unset],
     plot |-> [title |-> <<>>, x_max |-> Unset, samples |-> 0]]

InitCtor ==
    /\ x = BlankView.x
    /\ slider = BlankView.slider
    /\ input_field = BlankView.input_field
    /\ result_label = BlankView.result_label
    /\ plot = BlankView.plot
    /\ stack = <<Frame("__init__", 24, 0, NaN)>>
    /\ last = [op |-> "__init__", tick |-> 0, text |-> <<>>, pre |-> BlankView,
               prev |-> "__init__", outcome |-> "running", emitted |-> 0]

\* Signals connected from the first statement on, in place of line 28.
ConnectedEarly(pc) == TRUE

\* Whether __init__ at pc has run _connect_signals (line 28): only its last
\* statement, line 29, comes after it.
ConnectedAt(pc) == pc = 29

\* valueChanged has a slot: no __init__ is still ahead of its line 28.
SliderConnected ==
    \A i \in 1..Len(stack) : stack[i].fn = "__init__" => ConnectedAt(stack[i].pc)

\* A slider write of __init__ that stores t and goes on at pc next; the slot is
\* called only if the position changes and valueChanged is connected.
CtorSliderWrite(t, next) ==
    IF ValueChanged(slider, t) /\ SliderConnected
    THEN /\ slider' = t
         /\ stack' = Append(Goto(next), Frame("_on_slider_changed", 113, t, NaN))
         /\ last' = [last EXCEPT !.emitted = @ + 1]
    ELSE /\ slider' = t
         /\ stack' = Goto(next)
         /\ last' = last

\* self.x = self.X_MAX_DEFAULT; line 27 then enters _setup_ui.
Ctor_24 ==
    /\ Running("__init__", 24)
    /\ x' = X_MAX_DEFAULT
    /\ stack' = Goto(63)
    /\ UNCHANGED <<slider, input_field, result_label, plot, last>>

\* self.input_field = QLineEdit(f"{self.x:.2f}")
Ctor_63 ==
    /\ Running("__init__", 63)
    /\ input_field' = Fmt2(x)
    /\ stack' = Goto(71)
    /\ UNCHANGED <<x, slider, result_label, plot, last>>

\* self.slider.setRange(1, self.SLIDER_MAX): the position is brought into range.
Ctor_71 ==
    /\ Running("__init__", 71)
    /\ CtorSliderWrite(Clamp(slider), 72)
    /\ UNCHANGED <<x, input_field, result_label, plot>>

\* self.slider.setValue(int(self.x * self.SLIDER_SCALE_FACTOR))
Ctor_72 ==
    /\ Running("__init__", 72)
    /\ CtorSliderWrite(Clamp(IntOfScaled(x, SLIDER_SCALE_FACTOR)), 82)
    /\ UNCHANGED <<x, input_field, result_label, plot>>

\* self.result_label.setText(...); _setup_ui returns to line 28.
Ctor_82 ==
    /\ Running("__init__", 82)
    /\ result_label' = LabelOf(x)
    /\ stack' = Goto(28)
    /\ UNCHANGED <<x, slider, input_field, plot, last>>

\* self._connect_signals()
Ctor_28 ==
    /\ Running("__init__", 28)
    /\ stack' = Goto(29)
    /\ UNCHANGED <<x, slider, input_field, result_label, plot, last>>

\* self.update_plot(); __init__ returns.
Ctor_29 ==
    /\ Running("__init__", 29)
    /\ plot' = PlotOf(x)
    /\ stack' = Popped
    /\ last' = Finish(Popped, "returned")
    /\ UNCHANGED <<x, slider, input_field, result_label>>

NextCtor ==
    \/ Ctor_24 \/ Ctor_63 \/ Ctor_71 \/ Ctor_72 \/ Ctor_82 \/ Ctor_28 \/ Ctor_29
    \/ Next

SpecCtor == InitCtor /\ [][NextCtor]_vars

\* __init__ is still running.
InCtor == stack # <<>> /\ stack[1].fn = "__init__"

\* C13: no handler runs during construction, the slider stands at
\* floor(4 pi * SCALE) = 125 before its signal is connected, and construction
\* ends with value 4 pi exactly, field "12.57" and a plot drawn from 4 pi.
C13_InitOrder ==
    /\ InCtor => (HandlerFrames = {} /\ last.emitted = 0 /\ Len(stack) = 1)
    /\ (InCtor /\ stack[1].pc \in {28, 29}) => slider = 125
    /\ (stack = <<>> /\ last.op = "__init__") =>
           /\ last.outcome = "returned"
           /\ x = Num(12, 566)
           /\ slider = 125
           /\ input_field = <<"1", "2", ".", "5", "7">>
           /\ result_label = [arg |-> <<"1", "2", ".", "5", "7">>, sin_of |-> Num(12, 566)]
           /\ plot = [title |-> <<"1", "2", ".", "5", "7">>, x_max |-> Num(12, 566),
                      samples |-> 1000]

\* Construction has run from the blank widgets to its end.
C13_Witness ==
    /\ stack = <<>>
    /\ last.op = "__init__"
    /\ last.pre.slider = 0
    /\ last.outcome = "returned"
    /\ slider = 125
    /\ x = Num(12, 566)

====
